---- MODULE Spec2Model ----
(***************************************************************************)
(* fate (function at the end): a guard bound to a zero-argument callable.  *)
(* Two forms are modelled: the generic form fate<T>, which keeps the       *)
(* callable in func_buf and a flag has_func, and the function-pointer      *)
(* specialization, which keeps only the pointer func.                      *)
(*                                                                         *)
(* The program is single threaded.  The state holds a call stack, so that  *)
(* a callable that is running can reach back into a guard (the             *)
(* fate_breaker of main.cpp).  A top-level operation starts when the stack *)
(* is empty; the steps of a destructor or of an invocation are taken with  *)
(* the frames of that operation on the stack.                              *)
(***************************************************************************)
EXTENDS Integers, Sequences, FiniteSets, TLC

\* ---------------------------------------------------------------- bounds
NGuards == 2
NFuncs  == 2

Guards == 1..NGuards
Funcs  == 1..NFuncs

\* The type argument of the guard.  "fnptr" selects the specialization; the
\* other three are the generic form with T in one of the transfer tiers:
\*   nothrow_move  T is nothrow move constructible
\*   copy          T's move may throw, T has a copy constructor
\*   move_only     T's move may throw, T has no copy constructor
Types == {"fnptr", "nothrow_move", "copy", "move_only"}

\* What the body of a bound function does when it runs:
\*   plain    returns
\*   throws   raises
\*   breaker  invokes the guard it refers to (fate_breaker, fate_breaker_func)
\*   mover    move-constructs a new guard from the guard that is running it
\*   releaser calls release() on the guard it refers to
Kinds == {"plain", "throws", "breaker", "mover", "releaser"}

NoExc == "none"

VARIABLES
    T,          \* the type argument of every guard of this run
    life,       \* life[g]: "unborn", "alive", "dead", or the constructor that
                \* threw: "ctor_threw" (from a value), "move_threw" (from a guard)
    has_func,   \* generic form: has_func[g]
    func_buf,   \* generic form: func_buf[g] = [fn, st], the object in the buffer
    func,       \* specialization: func[g], 0 is nullptr
    kind,       \* kind[f]: "unused" or the behaviour of function f
    ref,        \* ref[f]: the guard a breaker's body invokes (0: none)
    runs,       \* runs[f]: how many times the body of f has run
    owner,      \* owner[f]: the guard that holds, or last held, f (0: none)
    birth,      \* birth[f]: the guard f was first bound to (0: none)
    stack,      \* the call stack, innermost frame last
    exc,        \* the failure that is propagating, or NoExc
    inflight,   \* the unrelated failure that is unwinding the scope, or NoExc
    terminated, \* a failure escaped a destructor: std::terminate
    transferred,\* functions that were the subject of a transfer, successful or not
    released,   \* functions destroyed by release() called by the holder
    movedFrom,  \* guards that were the source of a successful transfer
    defaulted,  \* guards constructed by fate()
    reentrant,  \* guards move-constructed by a function from the guard running it
    last        \* the top-level operation in progress or just finished

vars == <<T, life, has_func, func_buf, func, kind, ref, runs, owner, birth, stack, exc,
          inflight, terminated, transferred, released, movedFrom, defaulted,
          reentrant, last>>

\* ------------------------------------------------------------- the buffer
RawBuf == [fn |-> 0, st |-> "raw"]

Generic == T # "fnptr"

\* operator bool
IsArmed(g) == IF T = "fnptr" THEN func[g] # 0 ELSE has_func[g]

\* empty()
IsEmptySame(g) == IF T = "fnptr" THEN func[g] # 0 ELSE has_func[g]
IsEmpty(g) == IF T = "fnptr" THEN ~(func[g] # 0) ELSE ~has_func[g]

\* the function a guard would call
Held(g) == IF T = "fnptr" THEN func[g] ELSE func_buf[g].fn

\* release(): what it leaves in has_func, func_buf and func
ReleaseHasFuncKeep(hf, g) == hf
ReleaseHasFunc(hf, g) ==
    IF Generic THEN [hf EXCEPT ![g] = FALSE] ELSE hf

\* (*(T*)&func_buf).~T(): the state of the storage after T's destructor was
\* called on it.  Called on storage that holds no object (never constructed, or
\* destroyed before) the behaviour is undefined: "ub" stands for any outcome.
DestroyT(st) == IF st \in {"live", "consumed"} THEN "dead" ELSE "ub"

ReleaseBufAlways(hf, fb, g) ==
    IF Generic THEN [fb EXCEPT ![g].st = DestroyT(@)] ELSE fb
ReleaseBufKeep(hf, fb, g) == fb
ReleaseBuf(hf, fb, g) ==
    IF Generic /\ hf[g] THEN [fb EXCEPT ![g].st = DestroyT(@)] ELSE fb

ReleaseFuncKeep(fp, g) == fp
ReleaseFunc(fp, g) ==
    IF Generic THEN fp ELSE [fp EXCEPT ![g] = 0]

\* ------------------------------------------------------------ bookkeeping
\* The record of a top-level operation: the guard g it acts on (for a transfer
\* the new guard, src the guard moved from), what the guard it reads held
\* before (wasArmed, fn), what g itself held before (dArmed, dFn), the runs
\* counted before, the failure that left the operation, the
\* function that raised during it (raised), the answers of operator bool and of
\* empty() (answer, empty), and whether
\* a release left every guard as it was (same).
Op(name, g, s, done, esc) ==
    LET t == IF s \in Guards THEN s ELSE g
    IN [op |-> name, g |-> g, src |-> s, done |-> done, escaped |-> esc,
        wasArmed |-> IF t \in Guards THEN IsArmed(t) ELSE FALSE,
        fn |-> IF t \in Guards THEN Held(t) ELSE 0,
        dArmed |-> IF g \in Guards THEN IsArmed(g) ELSE FALSE,
        dFn |-> IF g \in Guards THEN Held(g) ELSE 0,
        raised |-> 0,
        answer |-> FALSE,
        empty |-> FALSE,
        same |-> FALSE,
        unwinding |-> inflight # NoExc,
        runs0 |-> runs]

Idle == stack = <<>> /\ ~terminated

\* Guards are constructed, and functions bound, in the order of their numbers:
\* which storage a new guard gets is immaterial.
NextGuard(g) == life[g] = "unborn" /\ \A h \in Guards : h < g => life[h] # "unborn"
NextFunc(f) == kind[f] = "unused" /\ \A e \in Funcs : e < f => kind[e] # "unused"

Init ==
    /\ T \in Types
    /\ life = [g \in Guards |-> "unborn"]
    /\ has_func = [g \in Guards |-> FALSE]
    /\ func_buf = [g \in Guards |-> RawBuf]
    /\ func = [g \in Guards |-> 0]
    /\ kind = [f \in Funcs |-> "unused"]
    /\ ref = [f \in Funcs |-> 0]
    /\ runs = [f \in Funcs |-> 0]
    /\ owner = [f \in Funcs |-> 0]
    /\ birth = [f \in Funcs |-> 0]
    /\ stack = <<>>
    /\ exc = NoExc
    /\ inflight = NoExc
    /\ terminated = FALSE
    /\ transferred = {}
    /\ released = {}
    /\ movedFrom = {}
    /\ defaulted = {}
    /\ reentrant = {}
    /\ last = [op |-> "none", g |-> 0, src |-> 0, done |-> TRUE, escaped |-> NoExc,
               wasArmed |-> FALSE, fn |-> 0, dArmed |-> FALSE, dFn |-> 0,
               raised |-> 0, answer |-> FALSE,
               empty |-> FALSE, same |-> FALSE, unwinding |-> FALSE,
               runs0 |-> [f \in Funcs |-> 0]]

\* ----------------------------------------------------------- construction
\* fate() noexcept : has_func(false); the specialization: func(nullptr)
DefaultHasFuncSet == TRUE
DefaultHasFunc == FALSE

\* fate() noexcept
ConstructEmpty(g) ==
    /\ Idle /\ inflight = NoExc
    /\ NextGuard(g)
    /\ life' = [life EXCEPT ![g] = "alive"]
    /\ has_func' = [has_func EXCEPT ![g] = DefaultHasFunc]
    /\ func' = [func EXCEPT ![g] = 0]
    /\ defaulted' = defaulted \cup {g}
    /\ last' = Op("default", g, 0, TRUE, NoExc)
    /\ UNCHANGED <<T, func_buf, kind, ref, runs, owner, birth, stack, exc,
                   inflight, terminated, transferred, released, movedFrom,
                   reentrant>>

\* fate(J&&): the body has no handler, a failure of T's constructor leaves it
CtorEscapes(ok) == IF ok THEN NoExc ELSE "E_ctor"

\* fate(J&&): has_func after the body, given whether T's constructor returned
CtorHasFuncEarly(ok) == TRUE
CtorHasFunc(ok) == ok

\* explicit fate(J &&arg), generic form.  f is the function bound, k what its
\* body does, ok whether T's constructor returns.
ConstructArmedGeneric(g, f, k, ok) ==
    /\ Idle /\ inflight = NoExc
    /\ Generic
    /\ NextGuard(g)
    /\ NextFunc(f)
    /\ has_func' = [has_func EXCEPT ![g] = CtorHasFunc(ok)]
    /\ IF ok
          THEN /\ func_buf' = [func_buf EXCEPT ![g] = [fn |-> f, st |-> "live"]]
               /\ life' = [life EXCEPT ![g] = "alive"]
               /\ kind' = [kind EXCEPT ![f] = k]
               /\ ref' = [ref EXCEPT ![f] = IF k \in {"breaker", "releaser"} THEN g ELSE 0]
               /\ owner' = [owner EXCEPT ![f] = g]
               /\ birth' = [birth EXCEPT ![f] = g]
               /\ last' = Op("construct", g, 0, TRUE, NoExc)
          ELSE /\ life' = [life EXCEPT ![g] = "ctor_threw"]
               /\ last' = Op("construct", g, 0, TRUE, CtorEscapes(ok))
               /\ UNCHANGED <<func_buf, kind, ref, owner, birth>>
    /\ UNCHANGED <<T, func, runs, stack, exc, inflight, terminated,
                   transferred, released, movedFrom, defaulted, reentrant>>

\* explicit fate(f) noexcept of the specialization
ConstructArmedFnptr(g, f, k) ==
    /\ Idle /\ inflight = NoExc
    /\ T = "fnptr"
    /\ NextGuard(g)
    /\ NextFunc(f)
    /\ func' = [func EXCEPT ![g] = f]
    /\ life' = [life EXCEPT ![g] = "alive"]
    /\ kind' = [kind EXCEPT ![f] = k]
    /\ ref' = [ref EXCEPT ![f] = IF k \in {"breaker", "releaser"} THEN g ELSE 0]
    /\ owner' = [owner EXCEPT ![f] = g]
    /\ birth' = [birth EXCEPT ![f] = g]
    /\ last' = Op("construct", g, 0, TRUE, NoExc)
    /\ UNCHANGED <<T, has_func, func_buf, runs, stack, exc, inflight,
                   terminated, transferred, released, movedFrom, defaulted,
                   reentrant>>

\* ------------------------------------------------------------- the stack
Frame(o, g, f, pc) == [op |-> o, g |-> g, f |-> f, pc |-> pc]
Top == stack[Len(stack)]
Pop(s) == SubSeq(s, 1, Len(s) - 1)
Running == stack # <<>> /\ ~terminated

\* A guard may be destroyed only when no callable held elsewhere refers to it:
\* the caller keeps the references of its callables valid.
NoOtherRefers(g) ==
    \A h \in Guards \ {g} :
        (life[h] = "alive" /\ IsArmed(h) /\ Held(h) \in Funcs) => ref[Held(h)] # g

\* ---------------------------------------------------------------- release
\* void release() noexcept, called by the holder of the guard
Release(g) ==
    /\ Idle /\ inflight = NoExc
    /\ life[g] = "alive"
    /\ has_func' = ReleaseHasFunc(has_func, g)
    /\ func_buf' = ReleaseBuf(has_func, func_buf, g)
    /\ func' = ReleaseFunc(func, g)
    /\ released' = IF IsArmed(g) THEN released \cup {Held(g)} ELSE released
    /\ last' = [Op("release", g, 0, TRUE, NoExc) EXCEPT
                   !.same = (has_func' = has_func /\ func_buf' = func_buf
                             /\ func' = func)]
    /\ UNCHANGED <<T, life, kind, ref, runs, owner, birth, stack, exc,
                   inflight, terminated, transferred, movedFrom, defaulted,
                   reentrant>>

\* operator bool and empty(), called by the holder of the guard
Query(g) ==
    /\ Idle /\ inflight = NoExc
    /\ life[g] = "alive"
    /\ last' = [Op("query", g, 0, TRUE, NoExc) EXCEPT !.answer = IsArmed(g),
                                                      !.empty = IsEmpty(g)]
    /\ UNCHANGED <<T, life, has_func, func_buf, func, kind, ref, runs, owner,
                   birth, stack, exc, inflight, terminated, transferred,
                   released, movedFrom, defaulted, reentrant>>

\* ------------------------------------------------------------- destructor
\* ~fate(): the frames it pushes when it calls the stored function
DtorFrames(g) ==
    IF IsArmed(g)
       THEN <<Frame("dtor", g, Held(g), "called"), Frame("body", g, Held(g), "start")>>
       ELSE <<>>

\* ~fate(), first part: test has_func (func), call the stored function
Destroy(g) ==
    /\ Idle
    /\ life[g] = "alive"
    /\ NoOtherRefers(g)
    /\ stack' = DtorFrames(g)
    /\ life' = IF IsArmed(g) THEN life ELSE [life EXCEPT ![g] = "dead"]
    /\ last' = Op("destroy", g, 0, ~IsArmed(g), NoExc)
    /\ UNCHANGED <<T, has_func, func_buf, func, kind, ref, runs, owner, birth,
                   exc, inflight, terminated, transferred, released,
                   movedFrom, defaulted, reentrant>>

\* ~fate(): catch (...) {}
DtorRethrow(e) == e
DtorCatch(e) == NoExc

\* ~fate(), second part: the stored function has returned or raised;
\* catch (...) {} and release()
DtorReturn ==
    /\ Running
    /\ Len(stack) >= 2
    /\ Top.op = "body" /\ Top.pc = "done"
    /\ stack[Len(stack) - 1].op = "dtor"
    /\ LET g == stack[Len(stack) - 1].g
           e == DtorCatch(exc)
           rest == Pop(Pop(stack))
       IN /\ has_func' = ReleaseHasFunc(has_func, g)
          /\ func_buf' = ReleaseBuf(has_func, func_buf, g)
          /\ func' = ReleaseFunc(func, g)
          /\ stack' = rest
          /\ life' = [life EXCEPT ![g] = "dead"]
          /\ exc' = IF rest = <<>> THEN NoExc ELSE e
          /\ terminated' = (e # NoExc)
          /\ last' = IF rest = <<>>
                        THEN [last EXCEPT !.done = TRUE, !.escaped = e]
                        ELSE last
    /\ UNCHANGED <<T, kind, ref, runs, owner, birth, inflight, transferred,
                   released, movedFrom, defaulted, reentrant>>

\* ------------------------------------------------------------- invocation
\* operator()(): mark the guard empty before the stored function is called
CallMarkHasFunc(hf, g) ==
    IF Generic THEN [hf EXCEPT ![g] = FALSE] ELSE hf

CallMarkFunc(fp, g) ==
    IF Generic THEN fp ELSE [fp EXCEPT ![g] = 0]

\* operator()(): the frames it pushes when it calls the stored function
CallFrames(g) ==
    IF IsArmed(g)
       THEN <<Frame("call", g, Held(g), "called"), Frame("body", g, Held(g), "start")>>
       ELSE <<>>

\* operator()() called by the holder of the guard
Invoke(g) ==
    /\ Idle /\ inflight = NoExc
    /\ life[g] = "alive"
    /\ has_func' = CallMarkHasFunc(has_func, g)
    /\ func' = CallMarkFunc(func, g)
    /\ stack' = CallFrames(g)
    /\ last' = Op("invoke", g, 0, ~IsArmed(g), NoExc)
    /\ UNCHANGED <<T, life, func_buf, kind, ref, runs, owner, birth, exc,
                   inflight, terminated, transferred, released, movedFrom,
                   defaulted, reentrant>>

\* operator()(): failures of the stored function are caught and ignored
CallCatch(e) == NoExc

\* operator()(): the storage of the function that was called is destroyed
CallDestroyBuf(fb, g) ==
    IF Generic THEN [fb EXCEPT ![g].st = DestroyT(@)] ELSE fb

\* operator()(), second part: the stored function has returned or raised
CallReturn ==
    /\ Running
    /\ Len(stack) >= 2
    /\ Top.op = "body" /\ Top.pc = "done"
    /\ stack[Len(stack) - 1].op = "call"
    /\ LET g == stack[Len(stack) - 1].g
           e == CallCatch(exc)
           rest == Pop(Pop(stack))
       IN /\ func_buf' = CallDestroyBuf(func_buf, g)
          /\ stack' = rest
          /\ exc' = IF rest = <<>> THEN NoExc ELSE e
          /\ last' = IF rest = <<>>
                        THEN [last EXCEPT !.done = TRUE, !.escaped = e]
                        ELSE last
    /\ UNCHANGED <<T, life, has_func, func, kind, ref, runs, owner, birth,
                   inflight, terminated, transferred, released, movedFrom,
                   defaulted, reentrant>>

\* ------------------------------------------------- the bound function's body
AtBodyStart == Running /\ Top.op = "body" /\ Top.pc = "start"

SetTopDone == [stack EXCEPT ![Len(stack)].pc = "done"]

\* void foo(), a lambda: the body runs and returns
BodyPlain ==
    /\ AtBodyStart
    /\ kind[Top.f] = "plain"
    /\ runs' = [runs EXCEPT ![Top.f] = @ + 1]
    /\ stack' = SetTopDone
    /\ UNCHANGED <<T, life, has_func, func_buf, func, kind, ref, owner, birth,
                   exc, inflight, terminated, transferred, released,
                   movedFrom, defaulted, reentrant, last>>

\* a body that raises
BodyThrows ==
    /\ AtBodyStart
    /\ kind[Top.f] = "throws"
    /\ runs' = [runs EXCEPT ![Top.f] = @ + 1]
    /\ exc' = "E_callable"
    /\ stack' = SetTopDone
    /\ last' = [last EXCEPT !.raised = Top.f]
    /\ UNCHANGED <<T, life, has_func, func_buf, func, kind, ref, owner, birth,
                   inflight, terminated, transferred, released, movedFrom,
                   defaulted, reentrant>>

\* fate_breaker::operator()(), fate_breaker_func(): the body invokes the guard
\* it refers to, then returns
BodyBreaker ==
    /\ AtBodyStart
    /\ kind[Top.f] = "breaker"
    /\ runs' = [runs EXCEPT ![Top.f] = @ + 1]
    /\ LET r == ref[Top.f]
       IN /\ has_func' = CallMarkHasFunc(has_func, r)
          /\ func' = CallMarkFunc(func, r)
          /\ stack' = SetTopDone \o CallFrames(r)
    /\ UNCHANGED <<T, life, func_buf, kind, ref, owner, birth, exc, inflight,
                   terminated, transferred, released, movedFrom, defaulted,
                   reentrant, last>>

\* A body that disarms: it calls release() on the guard it refers to, then
\* returns.
BodyReleaser ==
    /\ AtBodyStart
    /\ kind[Top.f] = "releaser"
    /\ runs' = [runs EXCEPT ![Top.f] = @ + 1]
    /\ LET r == ref[Top.f]
       IN /\ has_func' = ReleaseHasFunc(has_func, r)
          /\ func_buf' = ReleaseBuf(has_func, func_buf, r)
          /\ func' = ReleaseFunc(func, r)
    /\ stack' = SetTopDone
    /\ UNCHANGED <<T, life, kind, ref, owner, birth, exc, inflight, terminated,
                   transferred, released, movedFrom, defaulted, reentrant,
                   last>>

\* The object in the buffer was the source of a move construction that threw:
\* what calling it does is up to T; here it does nothing.
BodyConsumed ==
    /\ AtBodyStart
    /\ Generic
    /\ func_buf[Top.g].st = "consumed"
    /\ stack' = SetTopDone
    /\ UNCHANGED <<T, life, has_func, func_buf, func, kind, ref, runs, owner,
                   birth, exc, inflight, terminated, transferred, released,
                   movedFrom, defaulted, reentrant, last>>

\* --------------------------------------------------------------- transfer
\* fate(fate &&other), generic form: which constructor of T line 79 selects
\* (std::move_if_noexcept), as the states it may leave other's object in when
\* that constructor throws.
MoveFailSrcStates ==
    IF T = "copy" THEN {"live"} ELSE {"live", "consumed"}

\* fate(fate &&other): whether T's constructor can throw at all
MoveMayThrow == T \in {"copy", "move_only"}

\* fate(fate &&other): catch (...) { throw; }
MoveRethrow(e) == e

\* fate(fate &&other): has_func of the new guard
MoveDstHasFuncEarly(srcArmed, ok) == srcArmed
MoveDstHasFuncAlways(srcArmed, ok) == ok
MoveDstHasFunc(srcArmed, ok) == srcArmed /\ ok

\* fate(fate &&other): other.release() after the construction succeeded
MoveSrcKeep(hf, s, ok) == hf
MoveSrcHasFunc(hf, s, ok) ==
    IF hf[s] /\ ok THEN ReleaseHasFunc(hf, s) ELSE hf

\* fate(fate &&other) of the generic form; ok: T's constructor returns;
\* st: the state other's object is left in when it throws.
MoveConstructGeneric(d, s, ok, st) ==
    /\ Idle /\ inflight = NoExc
    /\ Generic
    /\ d # s
    /\ NextGuard(d) /\ life[s] = "alive"
    /\ ok \/ (has_func[s] /\ MoveMayThrow)
    /\ st \in MoveFailSrcStates
    /\ ok => st = "live"
    /\ LET f == func_buf[s].fn
           hf1 == [has_func EXCEPT ![d] = MoveDstHasFunc(has_func[s], ok)]
       IN /\ has_func' = MoveSrcHasFunc(hf1, s, ok)
          /\ func_buf' =
                IF ~has_func[s] THEN func_buf
                ELSE IF ok
                   THEN ReleaseBuf(has_func,
                                   [func_buf EXCEPT ![d] = [fn |-> f, st |-> "live"]], s)
                   ELSE [func_buf EXCEPT ![s].st = st]
          /\ life' = [life EXCEPT ![d] = IF ok THEN "alive" ELSE "move_threw"]
          /\ owner' = IF has_func[s] /\ ok THEN [owner EXCEPT ![f] = d] ELSE owner
          /\ transferred' = IF has_func[s] THEN transferred \cup {f} ELSE transferred
          /\ movedFrom' = IF has_func[s] /\ ok THEN movedFrom \cup {s} ELSE movedFrom
          /\ last' = Op("move", d, s, TRUE,
                        MoveRethrow(IF ok THEN NoExc
                                    ELSE IF T = "copy" THEN "E_copy" ELSE "E_move"))
    /\ UNCHANGED <<T, func, kind, ref, runs, birth, stack, exc, inflight,
                   terminated, released, defaulted, reentrant>>

\* fate(fate &&other) noexcept of the specialization
MoveConstructFnptr(d, s) ==
    /\ Idle /\ inflight = NoExc
    /\ T = "fnptr"
    /\ d # s
    /\ NextGuard(d) /\ life[s] = "alive"
    /\ LET f == func[s]
       IN /\ func' = ReleaseFunc([func EXCEPT ![d] = f], s)
          /\ life' = [life EXCEPT ![d] = "alive"]
          /\ owner' = IF f # 0 THEN [owner EXCEPT ![f] = d] ELSE owner
          /\ transferred' = IF f # 0 THEN transferred \cup {f} ELSE transferred
          /\ movedFrom' = IF f # 0 THEN movedFrom \cup {s} ELSE movedFrom
          /\ last' = Op("move", d, s, TRUE, NoExc)
    /\ UNCHANGED <<T, has_func, func_buf, kind, ref, runs, birth, stack, exc,
                   inflight, terminated, released, defaulted, reentrant>>

\* A body that transfers: it move-constructs the next guard from the guard
\* that is running it (fate(fate &&other) with other the running guard; T's
\* constructor returns), then returns.  When no storage for a guard is left it
\* only returns.
BodyMover ==
    /\ AtBodyStart
    /\ kind[Top.f] = "mover"
    /\ runs' = [runs EXCEPT ![Top.f] = @ + 1]
    /\ stack' = SetTopDone
    /\ IF \E d \in Guards : NextGuard(d)
          THEN LET d == CHOOSE h \in Guards : NextGuard(h)
                   s == Top.g
                   armed == IsArmed(s)
                   f == Held(s)
                   hf1 == [has_func EXCEPT ![d] = MoveDstHasFunc(has_func[s], TRUE)]
               IN /\ has_func' = IF Generic THEN MoveSrcHasFunc(hf1, s, TRUE)
                                            ELSE has_func
                  /\ func_buf' =
                        IF Generic /\ has_func[s]
                           THEN ReleaseBuf(has_func,
                                           [func_buf EXCEPT ![d] = [fn |-> f, st |-> "live"]],
                                           s)
                           ELSE func_buf
                  /\ func' = IF Generic THEN func
                                        ELSE ReleaseFunc([func EXCEPT ![d] = func[s]], s)
                  /\ life' = [life EXCEPT ![d] = "alive"]
                  /\ owner' = IF armed THEN [owner EXCEPT ![f] = d] ELSE owner
                  /\ transferred' = IF armed THEN transferred \cup {f} ELSE transferred
                  /\ movedFrom' = IF armed THEN movedFrom \cup {s} ELSE movedFrom
                  /\ reentrant' = reentrant \cup {d}
          ELSE UNCHANGED <<life, has_func, func_buf, func, owner, transferred,
                           movedFrom, reentrant>>
    /\ UNCHANGED <<T, kind, ref, birth, exc, inflight, terminated, released,
                   defaulted, last>>

\* ------------------------------------------------------------ assignment
\* fate &operator=(fate&&) = delete: an assignment between guards is ill-formed
Deleted == "deleted"

\* d = std::move(s): the operator is deleted in both forms, no guard changes
MoveAssign(d, s) ==
    /\ Idle /\ inflight = NoExc
    /\ life[d] = "alive" /\ life[s] = "alive"
    /\ last' = [Op("assign", d, s, TRUE, Deleted) EXCEPT !.same = TRUE]
    /\ UNCHANGED <<T, life, has_func, func_buf, func, kind, ref, runs, owner,
                   birth, stack, exc, inflight, terminated, transferred,
                   released, movedFrom, defaulted, reentrant>>

\* ------------------------------------------------- an unrelated failure
\* throw std::runtime_error("something bad") in a scope that holds guards; the
\* guards of the scope are destroyed (Destroy) before the handler runs.
Throw ==
    /\ Idle /\ inflight = NoExc
    /\ \E g \in Guards : life[g] = "alive"
    /\ inflight' = "E_unrelated"
    /\ last' = Op("throw", 0, 0, TRUE, NoExc)
    /\ UNCHANGED <<T, life, has_func, func_buf, func, kind, ref, runs, owner,
                   birth, stack, exc, terminated, transferred, released,
                   movedFrom, defaulted, reentrant>>

\* catch (const std::runtime_error &ex): last.escaped is what the handler received
Catch ==
    /\ Idle /\ inflight # NoExc
    /\ inflight' = NoExc
    /\ last' = Op("catch", 0, 0, TRUE, inflight)
    /\ UNCHANGED <<T, life, has_func, func_buf, func, kind, ref, runs, owner,
                   birth, stack, exc, terminated, transferred, released,
                   movedFrom, defaulted, reentrant>>

Next ==
    \/ \E g \in Guards : ConstructEmpty(g)
    \/ \E g \in Guards, f \in Funcs, k \in Kinds, ok \in BOOLEAN :
          ConstructArmedGeneric(g, f, k, ok)
    \/ \E g \in Guards, f \in Funcs, k \in Kinds : ConstructArmedFnptr(g, f, k)
    \/ \E g \in Guards : Release(g)
    \/ \E g \in Guards : Query(g)
    \/ \E g \in Guards : Destroy(g)
    \/ DtorReturn
    \/ \E g \in Guards : Invoke(g)
    \/ CallReturn
    \/ BodyPlain
    \/ BodyThrows
    \/ BodyBreaker
    \/ BodyMover
    \/ BodyReleaser
    \/ BodyConsumed
    \/ \E d \in Guards, s \in Guards, ok \in BOOLEAN, st \in {"live", "consumed"} :
          MoveConstructGeneric(d, s, ok, st)
    \/ \E d \in Guards, s \in Guards : MoveConstructFnptr(d, s)
    \/ \E d \in Guards, s \in Guards : MoveAssign(d, s)
    \/ Throw
    \/ Catch

Spec == Init /\ [][Next]_vars

\* ================================================================ claims
\* The lifetime of the guard that first held f has ended.
Ended(f) == kind[f] # "unused" /\ owner[f] # 0 /\ life[owner[f]] = "dead"

\* C1: a function bound to a guard and never transferred has run, once the
\* guard is destroyed, exactly once, or not at all when the holder released it
\* before it ran; it has never run more than once.
C1_RunsOnceUnlessReleased ==
    \A f \in Funcs :
        (Ended(f) /\ f \notin transferred) =>
            runs[f] = IF f \in released THEN 0 ELSE 1

\* C2: at the moment the stored function starts running, its guard is already
\* empty (operator bool is false from inside the function) and the function's
\* storage is not yet destroyed.
C2_EmptyBeforeRun ==
    \A i \in 1..Len(stack) :
        (stack[i].op = "body" /\ stack[i].pc = "start") =>
            /\ ~IsArmed(stack[i].g)
            /\ Generic => func_buf[stack[i].g].st # "dead"

\* C3: a function that invokes the guard that holds it has run exactly once
\* when that guard's lifetime is over, in the generic form and in the
\* specialization.
C3_SelfReferenceRunsOnce ==
    \A f \in Funcs :
        (Ended(f) /\ kind[f] = "breaker" /\ ref[f] = owner[f]
                  /\ f \notin transferred /\ f \notin released) =>
            runs[f] = 1

\* No frame of the call stack belongs to guard g.
NoFrameOf(g) == \A i \in 1..Len(stack) : stack[i].g # g

\* A destructor or an invocation has finished, and a stored function raised
\* while it ran.
RaisedAndDone ==
    last.op \in {"invoke", "destroy"} /\ last.done /\ last.raised # 0

\* C4: a failure raised by the stored function is caught and discarded: no
\* failure leaves the invocation or the destructor, the guard that held the
\* function ends empty, and the function's storage is destroyed.
C4_FailureDiscarded ==
    /\ ~terminated
    /\ stack = <<>> => exc = NoExc
    /\ RaisedAndDone =>
          /\ last.escaped = NoExc
          /\ ~IsArmed(owner[last.raised])
          /\ Generic => func_buf[owner[last.raised]].st = "dead"

C4_Witness == RaisedAndDone /\ last.op = "destroy"

\* C5: a guard destroyed while an unrelated failure unwinds its scope runs its
\* function exactly once, and the unrelated failure reaches its handler as it
\* was thrown.
C5_UnwindRunsOnce ==
    /\ (last.op = "destroy" /\ last.done /\ last.unwinding /\ last.wasArmed
          /\ last.fn \notin transferred) =>
          /\ runs[last.fn] = last.runs0[last.fn] + 1
          /\ inflight = "E_unrelated"
          /\ ~terminated
    /\ last.op = "catch" => last.escaped = "E_unrelated"

\* C6: when T's constructor raises in fate(J&&), the failure reaches the
\* caller and the guard is empty: its buffer holds no object, partial or whole,
\* and nothing is run or destroyed for it.
C6_CtorFailureLeavesEmpty ==
    /\ \A g \in Guards :
          life[g] = "ctor_threw" =>
              ~IsArmed(g) /\ func_buf[g] = RawBuf /\ NoFrameOf(g)
    /\ (last.op = "construct" /\ life[last.g] = "ctor_threw") =>
          last.escaped = "E_ctor" /\ runs = last.runs0

C6_Witness == last.op = "construct" /\ life[last.g] = "ctor_threw"

\* C7: release() on an armed guard destroys the stored function without
\* running it and leaves the guard empty, so the function never runs, whatever
\* is done to the guard later; on an empty guard it changes nothing; it never
\* fails.
C7_ReleaseDisarms ==
    /\ (last.op = "release" /\ last.wasArmed) =>
          /\ ~IsArmed(last.g)
          /\ Generic => func_buf[last.g].st = "dead"
          /\ runs = last.runs0
    /\ (last.op = "release" /\ ~last.wasArmed) => last.same /\ runs = last.runs0
    /\ last.op = "release" => last.escaped = NoExc /\ exc = NoExc
    /\ \A f \in released :
          \A i \in 1..Len(stack) : stack[i].op = "body" => stack[i].f # f

C7_Witness ==
    \E f \in released : life[owner[f]] = "dead" /\ last.op = "destroy" /\ last.done

\* C8: after a successful move construction from an armed source the new
\* guard is armed with the source's function and the source is empty; invoking
\* or destroying the source later runs nothing; the function is run only by the
\* guard that received it.
C8_MoveTransfers ==
    /\ (last.op = "move" /\ last.wasArmed /\ last.escaped = NoExc) =>
          /\ IsArmed(last.g) /\ Held(last.g) = last.fn
          /\ Generic => func_buf[last.g].st = "live"
          /\ ~IsArmed(last.src)
          /\ runs = last.runs0
    /\ \A s \in movedFrom : ~IsArmed(s)
    /\ (last.op \in {"invoke", "destroy"} /\ last.g \in movedFrom /\ ~last.wasArmed) =>
          last.done /\ runs = last.runs0
    /\ \A i \in 1..Len(stack) :
          (stack[i].op = "body" /\ stack[i].pc = "start") =>
              stack[i].g = owner[stack[i].f]

C8_Witness ==
    \E s \in movedFrom, f \in transferred :
        /\ life[s] = "dead"
        /\ birth[f] = s /\ owner[f] # s /\ life[owner[f]] = "dead"
        /\ runs[f] = 1

\* C9: when T's copy constructor raises during a transfer, the failure
\* reaches the caller, the new guard is empty and the source is still armed with
\* its untouched function, which still runs exactly once when the source is
\* invoked or destroyed.
C9_CopyFailureKeepsSource ==
    /\ (last.op = "move" /\ T = "copy" /\ life[last.g] = "move_threw") =>
          /\ last.escaped = "E_copy"
          /\ ~IsArmed(last.g) /\ func_buf[last.g] = RawBuf
          /\ IsArmed(last.src)
          /\ func_buf[last.src] = [fn |-> last.fn, st |-> "live"]
          /\ runs = last.runs0
    /\ \A f \in Funcs :
          (T = "copy" /\ f \in transferred /\ owner[f] = birth[f] /\ Ended(f)
             /\ f \notin released) =>
              runs[f] = 1

\* C10: when T has no copy constructor and its move constructor raises during
\* a transfer, the failure reaches the caller and the new guard is empty, its
\* buffer holding no object; the source keeps has_func and its object is either
\* intact or consumed.
C10_MoveFailureLeavesDstEmpty ==
    /\ \A g \in Guards :
          (T = "move_only" /\ life[g] = "move_threw") =>
              ~IsArmed(g) /\ func_buf[g] = RawBuf /\ NoFrameOf(g)
    /\ (last.op = "move" /\ T = "move_only" /\ life[last.g] = "move_threw") =>
          /\ last.escaped = "E_move"
          /\ has_func[last.src]
          /\ func_buf[last.src].fn = last.fn
          /\ func_buf[last.src].st \in {"live", "consumed"}
          /\ runs = last.runs0

C10_Witness ==
    /\ last.op = "move" /\ T = "move_only" /\ life[last.g] = "move_threw"
    /\ func_buf[last.src].st = "consumed"

\* C11: when T is nothrow move constructible or has a copy constructor, a
\* bound function has run exactly once in total when the guard that last held
\* it is gone, whatever constructions, transfers (failed ones included),
\* invocations and destructions came before, unless a holder released it.
C11_OnlyLastTierBreaks ==
    \A f \in Funcs :
        (T # "move_only" /\ Ended(f) /\ f \notin released) => runs[f] = 1

\* C12: a move assignment onto an armed guard from another armed guard runs
\* the destination's function exactly once and then transfers: the destination
\* holds what the source held and the source is empty.
C12_AssignRunsThenAdopts ==
    (last.op = "assign" /\ last.g # last.src /\ last.dArmed /\ last.wasArmed) =>
        /\ runs[last.dFn] = last.runs0[last.dFn] + 1
        /\ IsArmed(last.g) /\ Held(last.g) = last.fn
        /\ ~IsArmed(last.src)

\* C13: a move assignment of a guard to itself is carried out and changes
\* nothing: the guard holds what it held and nothing is run.
C13_SelfAssignNoOp ==
    (last.op = "assign" /\ last.g = last.src) =>
        /\ last.escaped = NoExc
        /\ IsArmed(last.g) = last.wasArmed /\ Held(last.g) = last.fn
        /\ runs = last.runs0

\* C14: a guard constructed by fate() is empty: operator bool answers false,
\* its construction constructs no function object and runs nothing, it stays
\* empty for as long as it lives, and its destruction runs nothing.
C14_DefaultIsEmpty ==
    /\ last.op = "default" =>
          /\ ~IsArmed(last.g) /\ IsEmpty(last.g)
          /\ func_buf[last.g] = RawBuf
          /\ runs = last.runs0
          /\ last.escaped = NoExc
    /\ \A g \in defaulted :
          /\ life[g] = "alive" => ~IsArmed(g) /\ func_buf[g] = RawBuf
          /\ NoFrameOf(g)
          /\ \A f \in Funcs : birth[f] # g
    /\ (last.op = "destroy" /\ last.g \in defaulted) =>
          last.done /\ life[last.g] = "dead" /\ runs = last.runs0

C14_Witness ==
    /\ last.op = "destroy" /\ last.g \in defaulted /\ life[last.g] = "dead"
    /\ \E g \in Guards : life[g] = "alive" /\ IsArmed(g)

\* What the holder of guard g can observe of it: 0 when operator bool answers
\* false, else the function the guard would call.
Observed == [g \in Guards |-> IF IsArmed(g) THEN Held(g) ELSE 0]

\* The step leaves the guards observed as o and the runs counted as r.
Leaves(o, r) == Observed' = o /\ runs' = r

\* The effect of a step on what can be observed, stated in terms of what was
\* observed before it and of the operation alone, never of the form of the
\* guard.  A construction or transfer that fails changes nothing observable.
ObservedStep ==
    IF stack = <<>>
       THEN LET g == last'.g
                s == last'.src
                ok == last'.escaped = NoExc
            IN CASE last'.op = "default" ->
                       Leaves([Observed EXCEPT ![g] = 0], runs)
                 [] last'.op = "construct" ->
                       \E f \in Funcs :
                           /\ NextFunc(f)
                           /\ Leaves(IF ok THEN [Observed EXCEPT ![g] = f]
                                           ELSE Observed, runs)
                 [] last'.op = "query" ->
                       /\ Leaves(Observed, runs)
                       /\ last'.answer = (Observed[g] # 0)
                       /\ last'.empty = (Observed[g] = 0)
                 [] last'.op = "release" ->
                       Leaves([Observed EXCEPT ![g] = 0], runs)
                 [] last'.op = "move" ->
                       Leaves(IF ok THEN [Observed EXCEPT ![g] = Observed[s], ![s] = 0]
                                    ELSE Observed, runs)
                 [] last'.op = "destroy" ->
                       /\ Leaves(Observed, runs)
                       /\ (stack' # <<>>) = (Observed[g] # 0)
                       /\ stack' # <<>> => stack'[Len(stack')].f = Observed[g]
                 [] OTHER -> TRUE
       ELSE IF Top.pc = "start"
               THEN LET f == Top.f
                        r == [runs EXCEPT ![f] = @ + 1]
                    IN CASE kind[f] \in {"breaker", "releaser"} ->
                               Leaves([Observed EXCEPT ![ref[f]] = 0], r)
                         [] kind[f] = "mover" /\ (\E d \in Guards : NextGuard(d)) ->
                               LET d == CHOOSE h \in Guards : NextGuard(h)
                               IN Leaves([Observed EXCEPT ![d] = Observed[Top.g],
                                                          ![Top.g] = 0], r)
                         [] OTHER -> Leaves(Observed, r)
               ELSE LET under == stack[Len(stack) - 1]
                    IN Leaves(IF under.op = "dtor"
                                 THEN [Observed EXCEPT ![under.g] = 0]
                                 ELSE Observed, runs)

\* C15: the specialization for function pointers and the generic form are
\* observably equivalent: every step of construct-empty, construct-armed,
\* operator bool, release, move construction and destruction changes what is
\* observed of the guards, and the runs of the bound functions, in the same way
\* in both forms.  (A T whose move constructor throws and that has no copy
\* constructor can leave a consumed object behind, which no function pointer
\* can: that tier is left out.)
C15_FormsEquivalent == [][T # "move_only" => ObservedStep]_vars

C15_Witness ==
    /\ T = "fnptr" /\ movedFrom # {} /\ last.g \notin movedFrom
    /\ last.op = "destroy" /\ last.done /\ last.wasArmed
    /\ runs[last.fn] = last.runs0[last.fn] + 1

\* The guards whose buffer holds a constructed object for function f.
Holders(f) ==
    {g \in Guards : func_buf[g].fn = f /\ func_buf[g].st \in {"live", "consumed"}}

\* C16: single ownership: no two guards are armed with the same function, a
\* constructed function object sits in the buffer of at most one guard, and a
\* transfer does not leave both its source and its destination armed.
C16_SingleOwner ==
    /\ \A g \in Guards, h \in Guards :
          (g # h /\ IsArmed(g) /\ IsArmed(h)) => Held(g) # Held(h)
    /\ Generic => \A f \in Funcs : Cardinality(Holders(f)) <= 1
    /\ last.op = "move" => ~(IsArmed(last.g) /\ IsArmed(last.src))

C16_Witness ==
    /\ T = "copy" /\ last.op = "move" /\ last.wasArmed
    /\ IsArmed(last.g) /\ Holders(last.fn) = {last.g}

\* C17: invoking an empty guard runs nothing, fails with nothing and leaves
\* it empty, however it became empty: a guard is empty after fate(), after its
\* invocation has returned, after release() and after it was moved from.  So a
\* second invocation does nothing more than the first.
C17_InvokeEmptyNoOp ==
    /\ (last.op = "invoke" /\ ~last.wasArmed) =>
          /\ last.done /\ stack = <<>>
          /\ last.escaped = NoExc
          /\ runs = last.runs0
          /\ ~IsArmed(last.g)
    /\ (last.op = "invoke" /\ last.done) => ~IsArmed(last.g)
    /\ \A g \in defaulted \cup movedFrom : ~IsArmed(g)
    /\ \A f \in released : ~IsArmed(owner[f])

C17_Witness ==
    /\ last.op = "invoke" /\ ~last.wasArmed
    /\ \E f \in Funcs \ (released \cup transferred) :
          owner[f] = last.g /\ runs[f] = 1

\* Guard g is in the middle of its own operator()().
Invoking(g) == \E i \in 1..Len(stack) : stack[i].op = "call" /\ stack[i].g = g

C19_MoveFromEmpty ==
    (last.op = "move" /\ ~last.wasArmed) =>
        /\ last.escaped = NoExc /\ life[last.g] = "alive"
        /\ ~IsArmed(last.g) /\ IsEmpty(last.g)
        /\ Generic => func_buf[last.g] = RawBuf
        /\ ~IsArmed(last.src) /\ Held(last.src) = last.fn
        /\ runs = last.runs0 /\ stack = <<>>

C19_Witness ==
    /\ last.op = "move" /\ ~last.wasArmed /\ last.src \in defaulted
    /\ life[last.g] = "alive" /\ life[last.src] = "alive"

\* C20: a guard that a stored function move-constructs from the guard that is
\* running it is empty, because the running guard was marked empty before the
\* function was called; invoking or destroying that guard later runs nothing,
\* and the function has run once only.
C20_ReentrantTransferEmpty ==
    /\ \A h \in reentrant : ~IsArmed(h)
    /\ (last.op \in {"invoke", "destroy"} /\ last.g \in reentrant) =>
          last.done /\ runs = last.runs0
    /\ \A f \in Funcs : kind[f] = "mover" => runs[f] <= 1

\* C21: a function object constructed in a guard's buffer is destroyed exactly
\* once: T's destructor is never called on storage that holds no object (never
\* constructed, or destroyed before); no object is left behind by a guard whose
\* lifetime is over, nor by an empty guard between operations; a constructor
\* that failed leaves raw storage; and the function of a guard is only ever
\* called while its object exists.  This holds also when the running function
\* releases or invokes its own guard.
C21_DestroyedOnce ==
    /\ \A g \in Guards : func_buf[g].st # "ub"
    /\ \A g \in Guards :
          life[g] = "dead" => func_buf[g].st \in {"raw", "dead"}
    /\ \A g \in Guards :
          (stack = <<>> /\ ~IsArmed(g)) => func_buf[g].st \in {"raw", "dead"}
    /\ \A g \in Guards :
          life[g] \in {"unborn", "ctor_threw", "move_threw"} => func_buf[g] = RawBuf
    /\ \A i \in 1..Len(stack) :
          (Generic /\ stack[i].op = "body" /\ stack[i].pc = "start") =>
              func_buf[stack[i].g].st \in {"live", "consumed"}

C21_Witness ==
    /\ Generic /\ last.op = "destroy" /\ last.done /\ last.wasArmed
    /\ kind[last.fn] = "releaser" /\ ref[last.fn] = last.g
    /\ runs[last.fn] = 1
    /\ life[last.g] = "dead" /\ func_buf[last.g].st = "dead"
====
